---- MODULE Spec2Model ----
(***************************************************************************)
(* A model of the issue-tracker client, src/src/App.jsx: the AuthProvider  *)
(* (token decoding at start, login, logout), the two route guards, the     *)
(* IssueProvider (the cached issue list and its list / create / update /   *)
(* delete / export operations against the backend), and the issue details  *)
(* page and issue form (who is offered Edit, Delete and the status field). *)
(*                                                                         *)
(* JavaScript values are tagged tuples, <<"num", 1>>, <<"str", "1">>,      *)
(* <<"undefined">>, so that String(x) is a conversion and not the          *)
(* identity.  null is the record Null; an absent token is the empty        *)
(* sequence (what localStorage.getItem gives tests as falsy).  A token is  *)
(* the sequence of its dot-separated segments.                             *)
(*                                                                         *)
(* Of a user only id and role are kept (username, email and phone_number   *)
(* are displayed and never tested); of an issue id, userId, status and     *)
(* title (title stands for the validated text fields title, location and   *)
(* department, which the code treats alike).                               *)
(***************************************************************************)
EXTENDS Integers, Sequences, FiniteSets, Bags, TLC

----------------------------------------------------------------------------
(* Bounds *)

\* user ids and issue ids are numbered 1..MaxId
MaxId == 2
\* the clock at session start is one of 1..MaxNow seconds; exp is 0..MaxNow+1
MaxNow == 1
\* requests in flight at the same time
MaxCalls == 2
\* issues the backend creates in a run (their ids are 1..MaxIssues)
MaxIssues == 1

----------------------------------------------------------------------------
(* JavaScript values *)

Null == [isNull |-> TRUE]
Undefined == <<"undefined">>
NoToken == <<>>

Num(n) == <<"num", n>>
Digit == <<"0", "1", "2", "3", "4", "5", "6", "7", "8", "9">>

RECURSIVE DecimalString(_)
DecimalString(n) ==
  IF n < 10 THEN Digit[n + 1]
  ELSE DecimalString(n \div 10) \o Digit[(n % 10) + 1]

\* String(v)
String(v) ==
  CASE v[1] = "num" -> <<"str", DecimalString(v[2])>>
    [] v[1] = "str" -> v
    [] v[1] = "undefined" -> <<"str", "undefined">>

\* a > b on an exp claim and the clock: undefined > n is false
JsGreater(a, n) == a[1] = "num" /\ a[2] > n

Roles == {"customer", "technician", "admin"}
Statuses == {"OPEN", "IN_PROGRESS", "CLOSED"}
NumIds == {Num(n) : n \in 1..MaxId}
\* the identities a session can hold
Users == [id : NumIds, role : Roles]
\* the accounts of the backend: a customer for every id, and user 1 also as
\* technician and as admin (separate backends of the same kind)
Accounts == {u \in Users : u.role = "customer" \/ u.id = Num(1)}

----------------------------------------------------------------------------
(* Tokens *)

\* a segment that is not base64 (atob throws)
SegJunk == [b64 |-> FALSE, json |-> "invalid"]
\* base64 of text that is not JSON: also what a header or a signature is here
SegOpaque == [b64 |-> TRUE, json |-> "invalid"]
\* base64 of the JSON text null, and of a JSON number
SegJsonNull == [b64 |-> TRUE, json |-> "null"]
SegJsonNumber == [b64 |-> TRUE, json |-> "number"]
\* base64 of a JSON object with the claims c
SegClaims(c) == [b64 |-> TRUE, json |-> "object", claims |-> c]

Exps == {Num(n) : n \in 0..(MaxNow + 1)} \cup {Undefined}
Claims == {[id |-> a.id, role |-> a.role, exp |-> e] : a \in Accounts, e \in Exps}
Payloads == {SegJunk, SegOpaque, SegJsonNull, SegJsonNumber}
              \cup {SegClaims(c) : c \in Claims}
\* the payloads tried in tokens of two and of four segments
FewPayloads == {SegJunk} \cup {SegClaims(c) : c \in {d \in Claims : d.role = "admin"}}

\* what localStorage can hold under "token" when the page loads
StoredTokens ==
  {NoToken, <<SegOpaque>>}
    \cup {<<SegOpaque, p>> : p \in FewPayloads}
    \cup {<<SegOpaque, p, SegOpaque>> : p \in Payloads}
    \cup {<<SegOpaque, p, SegOpaque, SegOpaque>> : p \in FewPayloads}

\* the token the backend signs for account a at time t
IssuedToken(a, t) ==
  <<SegOpaque, SegClaims([id |-> a.id, role |-> a.role, exp |-> Num(t + 1)]),
    SegOpaque>>

\* token.split(".")[1]; atob(undefined) throws like a junk segment
MiddleSegment(tok) == IF Len(tok) >= 2 THEN tok[2] ELSE SegJunk

\* JSON.parse(atob(token.split(".")[1])) followed by the read of decoded.exp:
\* whether the try block throws
DecodeThrows(tok) ==
  LET seg == MiddleSegment(tok)
  IN  \/ ~seg.b64
      \/ seg.json = "invalid"
      \/ seg.json = "null"

\* decoded.exp
DecodedExp(tok) ==
  LET seg == MiddleSegment(tok)
  IN  IF seg.json = "object" THEN seg.claims.exp ELSE Undefined

\* NotExpired with >= for >
NotExpired_OrEqual(tok, t) ==
  LET e == DecodedExp(tok) IN e[1] = "num" /\ e[2] >= t

\* decoded.exp > now
NotExpired(tok, t) == JsGreater(DecodedExp(tok), t)

\* the user the mount effect of AuthProvider sets
StartupUser(tok, t) ==
  IF tok = NoToken \/ DecodeThrows(tok) \/ ~NotExpired(tok, t)
  THEN Null
  ELSE [id |-> MiddleSegment(tok).claims.id,
        role |-> MiddleSegment(tok).claims.role]

\* the branch of the mount effect of AuthProvider that runs
StartupBranch(tok, t) ==
  IF tok = NoToken THEN "no-token"
  ELSE IF DecodeThrows(tok) THEN "catch"
  ELSE IF NotExpired(tok, t) THEN "set-user"
  ELSE "expired"

\* StartupToken with a catch block that leaves the token where it is
StartupToken_KeptOnThrow(tok, t) ==
  IF tok = NoToken THEN NoToken
  ELSE IF DecodeThrows(tok) THEN tok
  ELSE IF NotExpired(tok, t) THEN tok
  ELSE NoToken

\* what the mount effect of AuthProvider leaves in localStorage
StartupToken(tok, t) ==
  IF tok = NoToken THEN NoToken
  ELSE IF DecodeThrows(tok) THEN NoToken
  ELSE IF NotExpired(tok, t) THEN tok
  ELSE NoToken

----------------------------------------------------------------------------
(* Route guards *)

\* PrivateRoute without its wait for the identity
PrivateRoute_NoWait(u, pending) == IF u # Null THEN "children" ELSE "to-login"

\* AdminRoute without its test of the role
AdminRoute_AnyUser(u, pending) ==
  IF pending THEN "spinner"
  ELSE IF u = Null THEN "to-login"
  ELSE "children"

\* PrivateRoute: what it renders
PrivateRoute(u, pending) ==
  IF pending THEN "spinner"
  ELSE IF u # Null THEN "children"
  ELSE "to-login"

\* AdminRoute: what it renders
AdminRoute(u, pending) ==
  IF pending THEN "spinner"
  ELSE IF u = Null THEN "to-login"
  ELSE IF u.role # "admin" THEN "to-home"
  ELSE "children"

----------------------------------------------------------------------------
(* Issue details page and issue form: what is rendered *)

Titles == {"", "t1", "t2"}
\* what the form holds and submits
FormDatas == [title : Titles, status : Statuses]

\* issues.find((i) => String(i.id) === id)
FindIssue(list, id) ==
  LET hits == {k \in 1..Len(list) : String(list[k].id) = id}
  IN  IF hits = {} THEN Null
      ELSE list[CHOOSE k \in hits : \A j \in hits : k <= j]

\* user && String(user.id) === String(issue.userId)
isReporter(u, issue) == u # Null /\ String(u.id) = String(issue.userId)
\* user?.role === "technician"
isTechnician(u) == u # Null /\ u.role = "technician"
\* user?.role === "admin"
isAdmin(u) == u # Null /\ u.role = "admin"

\* MayEdit without the technician's disjunct
MayEdit_NoTechnician(u, issue) == isReporter(u, issue) \/ isAdmin(u)

\* the condition under which IssueDetailsPage shows the form and the Edit button
MayEdit(u, issue) == isReporter(u, issue) \/ isTechnician(u) \/ isAdmin(u)
\* the condition (inside the one of Edit) under which it shows the Delete button
MayDelete(u, issue) == isReporter(u, issue) \/ isAdmin(u)

\* IssueDetailsPage: which of its returns is rendered
DetailsView(u, list, ld, err, id, editing) ==
  LET issue == FindIssue(list, id)
  IN  IF id = <<"str", "">> THEN "id-missing"
      ELSE IF ld THEN "spinner"
      ELSE IF err # Null THEN "error"
      ELSE IF issue = Null THEN "not-found"
      ELSE IF editing /\ MayEdit(u, issue) THEN "form"
      ELSE "details"

\* StatusFieldRendered for every role
StatusFieldRendered_Always(u) == u = u

\* IssueForm: the status radio group is rendered
StatusFieldRendered(u) == isTechnician(u) \/ isAdmin(u)

\* IssueForm on mount: useState's value, then the effect on [initialData, isEditMode]
FormInitial(issue, isEditMode) ==
  IF isEditMode /\ issue # Null
  THEN [title |-> issue.title, status |-> issue.status]
  ELSE [title |-> "", status |-> "OPEN"]

----------------------------------------------------------------------------
(* State *)

VARIABLES
  \* AuthProvider, localStorage and the clock; startup records the branch the
  \* mount effect of AuthProvider took ("pending" before it)
  token, user, authLoading, now, startup,
  \* the router: the location, and who navigated last
  route, lastNav,
  \* IssueProvider
  issues, loading, error,
  \* requests in flight (a bag of calls), and what the call that finished in the
  \* last step returned to its caller (NoReturn when none did)
  calls, ret,
  \* the backend's issues and the next id it assigns
  db, nextId,
  \* IssueDetailsPage / NewIssuePage and the IssueForm they hold
  isEditing, isModalOpen, submissionError, formData

authVars == <<token, user, authLoading, now, startup>>
navVars == <<route, lastNav>>
storeVars == <<issues, loading, error>>
netVars == <<calls, ret>>
backendVars == <<db, nextId>>
pageVars == <<isEditing, isModalOpen, submissionError, formData>>
vars == <<authVars, navVars, storeVars, netVars, backendVars, pageVars>>

IssueParams == {<<"str", DecimalString(n)>> : n \in 1..MaxId}
PublicRoutes == {<<"login">>, <<"register">>}
PrivateRoutes == {<<"home">>, <<"new">>} \cup {<<"issue", id>> : id \in IssueParams}
AdminRoutes == {<<"admin">>}
Routes == PublicRoutes \cup PrivateRoutes \cup AdminRoutes

\* App: what the route's element renders before any page does
RouteElement(r, u, pending) ==
  IF r \in PublicRoutes THEN "children"
  ELSE IF r \in AdminRoutes THEN AdminRoute(u, pending)
  ELSE PrivateRoute(u, pending)

Pending == [isPending |-> TRUE]
Void == [kind |-> "void"]
Success == [success |-> TRUE]
Failure(msg) == [success |-> FALSE, error |-> msg]
\* an Error that leaves an operation instead of a result
Thrown(msg) == [thrown |-> msg]
NoReturn == [op |-> "none", val |-> Void]

Call(op, phase, req) == [op |-> op, phase |-> phase, req |-> req, resp |-> Pending]
InFlight == BagCardinality(calls)
Add(bag, c) == bag (+) SetToBag({c})
Remove(bag, c) == bag (-) SetToBag({c})

Err(msg) == [msg |-> msg]

----------------------------------------------------------------------------
(* Rendering: the state of the mounted page after a step *)

\* the page component the route shows: "none" while a guard shows a spinner
\* or a redirect
PageKind(r, u, pending) ==
  IF RouteElement(r, u, pending) = "children" THEN r[1] ELSE "none"

\* the :id of the route
ParamId(r) == IF r[1] = "issue" THEN r[2] ELSE <<"str", "">>

\* an IssueForm is mounted: always on NewIssuePage, on IssueDetailsPage when
\* it renders its form
FormShown(r, u, pending, list, ld, err, editing) ==
  \/ PageKind(r, u, pending) = "new"
  \/ /\ PageKind(r, u, pending) = "issue"
     /\ DetailsView(u, list, ld, err, ParamId(r), editing) = "form"

\* React keeps a component's state while it stays mounted at its place and
\* gives it its initial state when it is mounted again.  ed, mo, se and fd are
\* what the step's handler leaves in isEditing, isModalOpen, submissionError
\* and formData; fresh says that setIssues stored new issue objects, which
\* runs the form's effect on [initialData, isEditMode] again.  To be
\* conjoined after the step has fixed route', user', authLoading', issues',
\* loading' and error'.
Render(ed, mo, se, fd, fresh) ==
  LET kind == PageKind(route, user, authLoading)
      kind2 == PageKind(route', user', authLoading')
      keep == kind = kind2 /\ kind2 \in {"issue", "new"}
      ed2 == IF keep THEN ed ELSE FALSE
      was == FormShown(route, user, authLoading, issues, loading, error, isEditing)
      is == FormShown(route', user', authLoading', issues', loading', error', ed2)
      old == FindIssue(issues, ParamId(route))
      new == FindIssue(issues', ParamId(route'))
  IN  /\ isEditing' = ed2
      /\ isModalOpen' = IF keep THEN mo ELSE FALSE
      /\ submissionError' = IF keep THEN se ELSE Null
      /\ formData' =
           IF ~is THEN Null
           ELSE IF ~(was /\ keep) THEN FormInitial(new, kind2 = "issue")
           ELSE IF kind2 = "issue" /\ (fresh \/ new # old)
                THEN FormInitial(new, TRUE)
           ELSE fd

\* a step of a provider or of the network: no handler of the page ran
Rerender(fresh) == Render(isEditing, isModalOpen, submissionError, formData, fresh)

----------------------------------------------------------------------------
(* IssueProvider: fetchIssues and the effect on [user, fetchIssues] *)

\* fetchIssues that leaves the error of the last list where it is
fetchIssues_KeepsError(tok, op, rest, r0) ==
  IF tok = NoToken
  THEN /\ issues' = <<>>
       /\ loading' = FALSE
       /\ error' = error
       /\ calls' = rest
       /\ ret' = [op |-> op, val |-> IF op = "list" THEN Void ELSE Success]
  ELSE /\ issues' = issues
       /\ loading' = TRUE
       /\ error' = error
       /\ calls' = Add(rest, Call(op, "list", Null))
       /\ ret' = r0

\* fetchIssues up to its await, run for caller op ("list": the effect, else a
\* mutation that awaits it) with token tok in localStorage; rest are the
\* other calls in flight, r0 what ret holds when fetchIssues does not return
\* in this step
fetchIssues(tok, op, rest, r0) ==
  IF tok = NoToken
  THEN /\ issues' = <<>>
       /\ loading' = FALSE
       /\ error' = error
       /\ calls' = rest
       /\ ret' = [op |-> op, val |-> IF op = "list" THEN Void ELSE Success]
  ELSE /\ issues' = issues
       /\ loading' = TRUE
       /\ error' = Null
       /\ calls' = Add(rest, Call(op, "list", Null))
       /\ ret' = r0

\* the effect of IssueProvider, run when user has become u
IssueProviderEffect(u, tok, rest, r0) ==
  IF u # Null
  THEN fetchIssues(tok, "list", rest, r0)
  ELSE /\ issues' = <<>>
       /\ loading' = FALSE
       /\ error' = error
       /\ calls' = rest
       /\ ret' = r0

----------------------------------------------------------------------------
(* AuthProvider *)

\* the mount effects: IssueProvider's (user is null), AuthProvider's, and
\* IssueProvider's again when AuthProvider's has set a user
Mount ==
  /\ authLoading
  /\ authLoading' = FALSE
  /\ user' = StartupUser(token, now)
  /\ token' = StartupToken(token, now)
  /\ startup' = StartupBranch(token, now)
  /\ now' = now
  /\ IssueProviderEffect(user', token', calls, NoReturn)
  /\ UNCHANGED <<navVars, backendVars>>
  /\ Rerender(FALSE)

\* login up to its await; cred is the account the credentials are of, or Null
loginRequest(cred) ==
  /\ ~authLoading
  /\ InFlight < MaxCalls
  /\ calls' = Add(calls, Call("login", "auth", cred))
  /\ ret' = NoReturn
  /\ UNCHANGED <<authVars, storeVars, backendVars>>

LoginOutcomes == {"ok", "rejected", "no-message", "unparsable", "network"}

\* error.message in the catch of login and of register: data.message of a
\* non-2xx answer (new Error(undefined) has the empty message), the error
\* response.json() throws, or the error fetch rejects with
AuthErrorMessage(outcome) ==
  CASE outcome = "no-message" -> ""
    [] outcome = "unparsable" -> "Unexpected token"
    [] outcome = "network" -> "Failed to fetch"
    [] OTHER -> "Invalid credentials"

\* loginResponse with response.json() outside the try block
loginResponse_Uncaught(c, outcome) ==
  /\ c.op = "login"
  /\ BagIn(c, calls)
  /\ UNCHANGED <<authLoading, now, startup, backendVars>>
  /\ IF outcome = "ok" /\ c.req # Null
     THEN /\ token' = IssuedToken(c.req, now)
          /\ user' = c.req
          /\ IssueProviderEffect(user', token', Remove(calls, c),
                                 [op |-> "login", val |-> Success])
     ELSE /\ UNCHANGED <<token, user, storeVars>>
          /\ calls' = Remove(calls, c)
          /\ ret' = [op |-> "login",
                     val |-> IF outcome = "unparsable"
                             THEN Thrown(AuthErrorMessage(outcome))
                             ELSE Failure(AuthErrorMessage(outcome))]

\* login from its await on, for the response the backend gives call c; the
\* effect of IssueProvider runs when setUser has stored the new user
loginResponse(c, outcome) ==
  /\ c.op = "login"
  /\ BagIn(c, calls)
  /\ UNCHANGED <<authLoading, now, startup, backendVars>>
  /\ IF outcome = "ok" /\ c.req # Null
     THEN /\ token' = IssuedToken(c.req, now)
          /\ user' = c.req
          /\ IssueProviderEffect(user', token', Remove(calls, c),
                                 [op |-> "login", val |-> Success])
     ELSE /\ UNCHANGED <<token, user, storeVars>>
          /\ calls' = Remove(calls, c)
          /\ ret' = [op |-> "login", val |-> Failure(AuthErrorMessage(outcome))]

\* register up to its await
registerRequest ==
  /\ ~authLoading
  /\ InFlight < MaxCalls
  /\ calls' = Add(calls, Call("register", "auth", Null))
  /\ ret' = NoReturn
  /\ UNCHANGED <<authVars, storeVars, backendVars>>

\* register from its await on: it stores nothing
registerResponse(c, outcome) ==
  /\ c.op = "register"
  /\ BagIn(c, calls)
  /\ outcome \in LoginOutcomes
  /\ calls' = Remove(calls, c)
  /\ ret' = [op |-> "register",
             val |-> IF outcome = "ok" THEN Success
                     ELSE Failure(AuthErrorMessage(outcome))]
  /\ UNCHANGED <<authVars, storeVars, backendVars>>

\* logout that leaves the token in localStorage
logout_KeepsToken ==
  /\ ~authLoading
  /\ token' = token
  /\ user' = Null
  /\ UNCHANGED <<authLoading, now, startup, backendVars>>
  /\ IF user # Null
     THEN IssueProviderEffect(user', token', calls, NoReturn)
     ELSE UNCHANGED <<storeVars, calls>> /\ ret' = NoReturn

\* logout, and the effect of IssueProvider when user changes by it
logout ==
  /\ ~authLoading
  /\ token' = NoToken
  /\ user' = Null
  /\ UNCHANGED <<authLoading, now, startup, backendVars>>
  /\ IF user # Null
     THEN IssueProviderEffect(user', token', calls, NoReturn)
     ELSE UNCHANGED <<storeVars, calls>> /\ ret' = NoReturn

----------------------------------------------------------------------------
(* Pages and the router *)

\* the user follows a link or enters a location
Navigate(r) ==
  /\ ~authLoading
  /\ r # route
  /\ route' = r
  /\ lastNav' = "user"
  /\ UNCHANGED <<authVars, storeVars, calls, backendVars>>
  /\ ret' = NoReturn
  /\ Rerender(FALSE)

\* a guard has rendered <Navigate to=... replace />
GuardRedirect ==
  LET el == RouteElement(route, user, authLoading)
  IN  /\ el \in {"to-login", "to-home"}
      /\ route' = IF el = "to-login" THEN <<"login">> ELSE <<"home">>
      /\ lastNav' = "guard"
      /\ UNCHANGED <<authVars, storeVars, calls, backendVars>>
      /\ ret' = NoReturn
      /\ Rerender(FALSE)

\* LoginPage.handleSubmit up to its await
LoginSubmit(cred) ==
  /\ route = <<"login">>
  /\ loginRequest(cred)
  /\ UNCHANGED navVars
  /\ Rerender(FALSE)

\* LoginPage.handleSubmit from its await on: navigate("/") on success
LoginPageResponse(c, outcome) ==
  /\ loginResponse(c, outcome)
  /\ IF ret'.val = Success
     THEN route' = <<"home">> /\ lastNav' = "handler"
     ELSE UNCHANGED navVars
  /\ Rerender(FALSE)

\* Navbar.handleLogout: logout(); navigate("/login")
handleLogout ==
  /\ user # Null
  /\ logout
  /\ route' = <<"login">>
  /\ lastNav' = "handler"
  /\ Rerender(FALSE)

----------------------------------------------------------------------------
(* The backend, as the client sees it (spec section 6) *)

Ok(body) == [ok |-> TRUE, body |-> body]

\* the id the backend reads from the bearer token of a request
Bearer(tok) ==
  IF tok # NoToken /\ ~DecodeThrows(tok) /\ MiddleSegment(tok).json = "object"
  THEN MiddleSegment(tok).claims.id
  ELSE Undefined

Present(list, id) == \E k \in 1..Len(list) : String(list[k].id) = String(id)

\* the rows of list other than the one with this id
Without(list, id) == SelectSeq(list, LAMBDA i : String(i.id) # String(id))

\* the rows of list with the fields of data written to the one with this id
Patched(list, id, data) ==
  [k \in 1..Len(list) |->
     IF String(list[k].id) = String(id)
     THEN [list[k] EXCEPT !.title = data.title, !.status = data.status]
     ELSE list[k]]

\* GET /api/issues answered: the response carries the rows of this moment
ServerList(c) ==
  /\ BagIn(c, calls)
  /\ c.phase = "list"
  /\ c.resp = Pending
  /\ calls' = Add(Remove(calls, c), [c EXCEPT !.resp = Ok(db)])
  /\ ret' = NoReturn
  /\ UNCHANGED <<authVars, navVars, storeVars, backendVars, pageVars>>

\* POST, PUT or DELETE /api/issues accepted: the backend writes and answers 2xx
ServerWrite(c) ==
  /\ BagIn(c, calls)
  /\ c.phase = "write"
  /\ c.resp = Pending
  /\ CASE c.op = "create" ->
            /\ nextId <= MaxIssues
            /\ db' = Append(db, [id |-> Num(nextId), userId |-> c.req.by,
                                 status |-> c.req.data.status,
                                 title |-> c.req.data.title])
            /\ nextId' = nextId + 1
       [] c.op = "update" ->
            /\ Present(db, c.req.id)
            /\ db' = Patched(db, c.req.id, c.req.data)
            /\ nextId' = nextId
       [] c.op = "delete" ->
            /\ Present(db, c.req.id)
            /\ db' = Without(db, c.req.id)
            /\ nextId' = nextId
  /\ calls' = Add(Remove(calls, c), [c EXCEPT !.resp = Ok(<<>>)])
  /\ ret' = NoReturn
  /\ UNCHANGED <<authVars, navVars, storeVars, pageVars>>

----------------------------------------------------------------------------
(* IssueProvider: the operations *)

\* Normalize that keeps the ids as the backend sent them
Normalize_Raw(list) == list

\* issuesList.map((issue) => ({ ...issue, id: String(issue.id) }))
Normalize(list) == [k \in 1..Len(list) |-> [list[k] EXCEPT !.id = String(list[k].id)]]

\* how a request can fail: a non-2xx answer with the server's message, one
\* with a body that holds none, one whose body cannot be parsed; a failure of
\* the transport
Failures == {"rejected", "no-message", "unparsable", "network"}
ListOutcomes == {"ok", "rejected", "no-message", "unparsable", "network"}

ServerMessage == "server message"
ParseMessage == "Unexpected token"
NetworkMessage == "Failed to fetch"

\* err.message in the catch of fetchIssues
FetchErrorMessage(outcome) ==
  CASE outcome = "rejected" -> "Failed to fetch issues: " \o ServerMessage
    [] outcome = "no-message" -> "Failed to fetch issues: " \o "Internal Server Error"
    [] outcome = "unparsable" -> ParseMessage
    [] outcome = "network" -> NetworkMessage

LoadError(outcome) ==
  Err("Failed to load issues: " \o FetchErrorMessage(outcome)
        \o ". Please ensure your backend is running and accessible at "
        \o "https://server-9cdv.onrender.com/.")

\* fetchIssuesResponse that adds the response to the cache it finds
fetchIssuesResponse_Appending(c, outcome) ==
  /\ BagIn(c, calls)
  /\ c.phase = "list"
  /\ outcome \in {"ok", "rejected", "no-message", "unparsable", "network"}
  /\ outcome \in {"rejected", "no-message", "unparsable"} => c.resp = Pending
  /\ IF outcome = "ok"
     THEN /\ c.resp # Pending
          /\ issues' = issues \o Normalize(c.resp.body)
          /\ loading' = FALSE
          /\ error' = error
     ELSE /\ issues' = issues
          /\ loading' = FALSE
          /\ error' = LoadError(outcome)
  /\ calls' = Remove(calls, c)
  /\ ret' = [op |-> c.op, val |-> IF c.op = "list" THEN Void ELSE Success]
  /\ UNCHANGED <<authVars, backendVars>>

\* fetchIssuesResponse that drops a list while another list request is in
\* flight, so that the request sent last is the one that fills the cache
fetchIssuesResponse_Coordinated(c, outcome) ==
  /\ BagIn(c, calls)
  /\ c.phase = "list"
  /\ outcome \in {"ok", "rejected", "no-message", "unparsable", "network"}
  /\ outcome \in {"rejected", "no-message", "unparsable"} => c.resp = Pending
  /\ IF outcome = "ok"
     THEN /\ c.resp # Pending
          /\ issues' = IF \E d \in BagToSet(Remove(calls, c)) : d.phase = "list"
                       THEN issues ELSE Normalize(c.resp.body)
          /\ loading' = FALSE
          /\ error' = error
     ELSE /\ issues' = issues
          /\ loading' = FALSE
          /\ error' = LoadError(outcome)
  /\ calls' = Remove(calls, c)
  /\ ret' = [op |-> c.op, val |-> IF c.op = "list" THEN Void ELSE Success]
  /\ UNCHANGED <<authVars, backendVars>>

\* fetchIssuesResponse that makes the mutation awaiting it fail when the
\* refresh fails
fetchIssuesResponse_FailsCaller(c, outcome) ==
  /\ BagIn(c, calls)
  /\ c.phase = "list"
  /\ outcome \in {"ok", "rejected", "no-message", "unparsable", "network"}
  /\ outcome \in {"rejected", "no-message", "unparsable"} => c.resp = Pending
  /\ IF outcome = "ok"
     THEN /\ c.resp # Pending
          /\ issues' = Normalize(c.resp.body)
          /\ loading' = FALSE
          /\ error' = error
     ELSE /\ issues' = issues
          /\ loading' = FALSE
          /\ error' = LoadError(outcome)
  /\ calls' = Remove(calls, c)
  /\ ret' = [op |-> c.op,
             val |-> IF c.op = "list" THEN Void
                     ELSE IF outcome = "ok" THEN Success
                     ELSE Failure(FetchErrorMessage(outcome))]
  /\ UNCHANGED <<authVars, backendVars>>

\* fetchIssues from its await on.  A 2xx answer with a list needs the backend
\* to have answered; the transport can fail at any time.  A mutation that
\* awaited fetchIssues returns success after it, whatever the outcome.
fetchIssuesResponse(c, outcome) ==
  /\ BagIn(c, calls)
  /\ c.phase = "list"
  /\ outcome \in ListOutcomes
  /\ outcome \in {"rejected", "no-message", "unparsable"} => c.resp = Pending
  /\ IF outcome = "ok"
     THEN /\ c.resp # Pending
          /\ issues' = Normalize(c.resp.body)
          /\ loading' = FALSE
          /\ error' = error
     ELSE /\ issues' = issues
          /\ loading' = FALSE
          /\ error' = LoadError(outcome)
  /\ calls' = Remove(calls, c)
  /\ ret' = [op |-> c.op, val |-> IF c.op = "list" THEN Void ELSE Success]
  /\ UNCHANGED <<authVars, backendVars>>

\* the fallback message of a mutation
Fallback(op) ==
  CASE op = "create" -> "Failed to add issue."
    [] op = "update" -> "Failed to update issue."
    [] op = "delete" -> "Failed to delete issue."

\* err.message in the catch of addIssue, updateIssue and deleteIssue
WriteErrorMessage(op, outcome) ==
  CASE outcome = "rejected" -> ServerMessage
    [] outcome = "no-message" -> Fallback(op)
    [] outcome = "unparsable" -> ParseMessage
    [] outcome = "network" -> NetworkMessage

\* mutate without its test of user
mutate_Unchecked(op, req) ==
  /\ ~authLoading
  /\ InFlight < MaxCalls
  /\ calls' = Add(calls, Call(op, "write", req))
  /\ ret' = NoReturn
  /\ UNCHANGED <<authVars, storeVars, backendVars>>

\* mutate that also writes a create to the cache before the backend answers
mutate_Optimistic(op, req) ==
  /\ ~authLoading
  /\ IF user = Null
     THEN /\ ret' = [op |-> op, val |-> Failure("User not authenticated.")]
          /\ calls' = calls
          /\ issues' = issues
     ELSE /\ InFlight < MaxCalls
          /\ calls' = Add(calls, Call(op, "write", req))
          /\ ret' = NoReturn
          /\ issues' = IF op = "create"
                       THEN Append(issues, [id |-> <<"str", "new">>, userId |-> user.id,
                                            status |-> req.data.status,
                                            title |-> req.data.title])
                       ELSE issues
  /\ UNCHANGED <<authVars, loading, error, backendVars>>

\* addIssue, updateIssue or deleteIssue up to its await: the request req
mutate(op, req) ==
  /\ ~authLoading
  /\ IF user = Null
     THEN /\ ret' = [op |-> op, val |-> Failure("User not authenticated.")]
          /\ calls' = calls
     ELSE /\ InFlight < MaxCalls
          /\ calls' = Add(calls, Call(op, "write", req))
          /\ ret' = NoReturn
  /\ UNCHANGED <<authVars, storeVars, backendVars>>

addIssue(issueData) ==
  mutate("create", [by |-> Bearer(token), data |-> issueData])

\* (the backend of this model reads the bearer token of a POST only)
updateIssue(id, updatedData) ==
  mutate("update", [id |-> id, data |-> updatedData])

deleteIssue(id) ==
  mutate("delete", [id |-> id])

\* mutateResponse that reports a failure in the store's error as well
mutateResponse_SetsError(c, outcome) ==
  /\ BagIn(c, calls)
  /\ c.phase = "write"
  /\ outcome \in Failures \cup {"ok"}
  /\ outcome \in {"rejected", "no-message", "unparsable"} => c.resp = Pending
  /\ IF outcome = "ok"
     THEN /\ c.resp # Pending
          /\ fetchIssues(token, c.op, Remove(calls, c), NoReturn)
     ELSE /\ calls' = Remove(calls, c)
          /\ ret' = [op |-> c.op, val |-> Failure(WriteErrorMessage(c.op, outcome))]
          /\ error' = Err(WriteErrorMessage(c.op, outcome))
          /\ UNCHANGED <<issues, loading>>
  /\ UNCHANGED <<authVars, backendVars>>

\* mutateResponse that starts fetchIssues and returns without awaiting it
mutateResponse_NoAwait(c, outcome) ==
  /\ BagIn(c, calls)
  /\ c.phase = "write"
  /\ outcome \in Failures \cup {"ok"}
  /\ outcome \in {"rejected", "no-message", "unparsable"} => c.resp = Pending
  /\ IF outcome = "ok"
     THEN /\ c.resp # Pending
          /\ issues' = issues
          /\ loading' = (token # NoToken)
          /\ error' = IF token = NoToken THEN error ELSE Null
          /\ calls' = IF token = NoToken THEN Remove(calls, c)
                      ELSE Add(Remove(calls, c), Call("list", "list", Null))
          /\ ret' = [op |-> c.op, val |-> Success]
     ELSE /\ calls' = Remove(calls, c)
          /\ ret' = [op |-> c.op, val |-> Failure(WriteErrorMessage(c.op, outcome))]
          /\ UNCHANGED storeVars
  /\ UNCHANGED <<authVars, backendVars>>

\* addIssue, updateIssue or deleteIssue from its await on: on a 2xx answer it
\* awaits fetchIssues, else it returns the failure.  The transport can fail
\* whether or not the backend has written.
mutateResponse(c, outcome) ==
  /\ BagIn(c, calls)
  /\ c.phase = "write"
  /\ outcome \in Failures \cup {"ok"}
  /\ outcome \in {"rejected", "no-message", "unparsable"} => c.resp = Pending
  /\ IF outcome = "ok"
     THEN /\ c.resp # Pending
          /\ fetchIssues(token, c.op, Remove(calls, c), NoReturn)
     ELSE /\ calls' = Remove(calls, c)
          /\ ret' = [op |-> c.op, val |-> Failure(WriteErrorMessage(c.op, outcome))]
          /\ UNCHANGED storeVars
  /\ UNCHANGED <<authVars, backendVars>>

\* err.message in the catch of downloadIssuesCsv
ExportErrorMessage(outcome) ==
  CASE outcome = "rejected" -> "Failed to download CSV: " \o ServerMessage
    [] outcome = "no-message" -> "Failed to download CSV: " \o "Internal Server Error"
    [] outcome = "network" -> NetworkMessage

\* downloadIssuesCsv up to its await
downloadIssuesCsv ==
  /\ ~authLoading
  /\ IF token = NoToken
     THEN /\ ret' = [op |-> "export", val |-> Failure("No authentication token found.")]
          /\ UNCHANGED <<calls, storeVars>>
     ELSE /\ InFlight < MaxCalls
          /\ loading' = TRUE
          /\ calls' = Add(calls, Call("export", "export", Null))
          /\ ret' = NoReturn
          /\ UNCHANGED <<issues, error>>
  /\ UNCHANGED <<authVars, backendVars>>

\* downloadIssuesCsvResponse that empties the cache when the export fails
downloadIssuesCsvResponse_ClearsCache(c, outcome) ==
  /\ BagIn(c, calls)
  /\ c.phase = "export"
  /\ outcome \in {"ok", "rejected", "no-message", "network"}
  /\ loading' = FALSE
  /\ issues' = IF outcome = "ok" THEN issues ELSE <<>>
  /\ calls' = Remove(calls, c)
  /\ IF outcome = "ok"
     THEN error' = error /\ ret' = [op |-> "export", val |-> Success]
     ELSE /\ error' = Err("Failed to download CSV: " \o ExportErrorMessage(outcome))
          /\ ret' = [op |-> "export", val |-> Failure(ExportErrorMessage(outcome))]
  /\ UNCHANGED <<authVars, backendVars>>

\* downloadIssuesCsv from its await on
downloadIssuesCsvResponse(c, outcome) ==
  /\ BagIn(c, calls)
  /\ c.phase = "export"
  /\ outcome \in {"ok", "rejected", "no-message", "network"}
  /\ loading' = FALSE
  /\ issues' = issues
  /\ calls' = Remove(calls, c)
  /\ IF outcome = "ok"
     THEN error' = error /\ ret' = [op |-> "export", val |-> Success]
     ELSE /\ error' = Err("Failed to download CSV: " \o ExportErrorMessage(outcome))
          /\ ret' = [op |-> "export", val |-> Failure(ExportErrorMessage(outcome))]
  /\ UNCHANGED <<authVars, backendVars>>

----------------------------------------------------------------------------
(* IssueDetailsPage and IssueForm: the handlers that call no provider *)

ShownIssue == FindIssue(issues, ParamId(route))

\* IssueDetailsPage renders its read-only view
DetailsShown ==
  /\ PageKind(route, user, authLoading) = "issue"
  /\ DetailsView(user, issues, loading, error, ParamId(route), isEditing) = "details"

\* the Edit button is rendered
EditOffered == DetailsShown /\ MayEdit(user, ShownIssue)

\* the Delete button is rendered: it is nested in the block of the Edit button
DeleteOffered == EditOffered /\ MayDelete(user, ShownIssue)

\* the Modal "Confirm Deletion" is rendered: it is outside the blocks of the
\* buttons, in the return that renders the issue
ConfirmOffered ==
  /\ PageKind(route, user, authLoading) = "issue"
  /\ DetailsView(user, issues, loading, error, ParamId(route), isEditing)
       \in {"form", "details"}
  /\ isModalOpen

\* DashboardPage and AdminPanelPage: the "Download All Issues (CSV)" button
\* is rendered
ExportOffered ==
  /\ ~loading
  /\ error = Null
  /\ \/ PageKind(route, user, authLoading) = "admin"
     \/ PageKind(route, user, authLoading) = "home" /\ isAdmin(user)

\* onClick of Edit: setIsEditing(true)
ClickEdit ==
  /\ EditOffered
  /\ UNCHANGED <<authVars, navVars, storeVars, calls, backendVars>>
  /\ ret' = NoReturn
  /\ Render(TRUE, isModalOpen, submissionError, formData, FALSE)

\* onClick of Delete: setIsModalOpen(true)
ClickDelete ==
  /\ DeleteOffered
  /\ UNCHANGED <<authVars, navVars, storeVars, calls, backendVars>>
  /\ ret' = NoReturn
  /\ Render(isEditing, TRUE, submissionError, formData, FALSE)

\* onCancel of the Modal: setIsModalOpen(false)
ModalCancel ==
  /\ ConfirmOffered
  /\ UNCHANGED <<authVars, navVars, storeVars, calls, backendVars>>
  /\ ret' = NoReturn
  /\ Render(isEditing, FALSE, submissionError, formData, FALSE)

\* the inputs IssueForm renders for user u
FieldRendered(name, u) ==
  \/ name = "title"
  \/ name = "status" /\ StatusFieldRendered(u)

FieldValues(name) == IF name = "status" THEN Statuses ELSE Titles

\* IssueForm.handleChange, fired by a rendered input
handleChange(name, value) ==
  /\ formData # Null
  /\ FieldRendered(name, user)
  /\ value \in FieldValues(name)
  /\ formData[name] # value
  /\ UNCHANGED <<authVars, navVars, storeVars, calls, backendVars>>
  /\ ret' = NoReturn
  /\ Render(isEditing, isModalOpen, submissionError,
            [formData EXCEPT ![name] = value], FALSE)

----------------------------------------------------------------------------
(* NewIssuePage, IssueDetailsPage and IssueForm: the handlers that call the *)
(* issue store                                                              *)

\* IssueForm.validateForm: every validated text field is non-empty after
\* trim() and a status is set
validateForm(fd) == fd.title # "" /\ fd.status \in Statuses

\* the submit button of a mounted IssueForm is enabled (disabled={loading})
\* and IssueForm.handleSubmit passes validateForm, so that onSubmit(formData)
\* is called
SubmitOffered ==
  /\ formData # Null
  /\ ~loading
  /\ validateForm(formData)

\* the page whose handler awaits the operation op
HandlerPage(op) == IF op = "create" THEN "new" ELSE "issue"

\* what the handler that awaits an operation does when the operation returns
\* in this step (ret'), after the handler or the last render left ed, mo and
\* se in the page: navigate("/") after a create or a delete that succeeded,
\* setIsEditing(false) after an update that succeeded, setSubmissionError(
\* result.error) after a failure.  A setState reaches the page only while
\* the page that started the handler is mounted.
Continue(ed, mo, se, fresh) ==
  LET r == ret'
      kind == PageKind(route, user, authLoading)
      alive == r.op \in {"create", "update", "delete"} /\ kind = HandlerPage(r.op)
  IN  IF r.op \in {"create", "delete"} /\ r.val = Success
      THEN /\ route' = <<"home">>
           /\ lastNav' = "handler"
           /\ Render(ed, mo, se, formData, fresh)
      ELSE /\ UNCHANGED navVars
           /\ Render(IF alive /\ r.val = Success THEN FALSE ELSE ed,
                     mo,
                     IF alive /\ r.val # Success THEN Err(r.val.error) ELSE se,
                     formData, fresh)

\* NewIssuePage.handleSubmit, called by IssueForm.handleSubmit
NewIssuePage_handleSubmit ==
  /\ PageKind(route, user, authLoading) = "new"
  /\ SubmitOffered
  /\ addIssue(formData)
  /\ Continue(isEditing, isModalOpen, Null, FALSE)

\* IssueDetailsPage.handleUpdateIssue, called by IssueForm.handleSubmit
handleUpdateIssue ==
  /\ PageKind(route, user, authLoading) = "issue"
  /\ SubmitOffered
  /\ updateIssue(ParamId(route), formData)
  /\ Continue(isEditing, isModalOpen, Null, FALSE)

\* IssueDetailsPage.handleConfirmDelete, onConfirm of the Modal
handleConfirmDelete ==
  /\ ConfirmOffered
  /\ deleteIssue(ParamId(route))
  /\ Continue(isEditing, FALSE, submissionError, FALSE)

\* a step of the issue store or of the network while the pages are mounted
Page(A, fresh) == A /\ Continue(isEditing, isModalOpen, submissionError, fresh)

----------------------------------------------------------------------------
(* Specifications *)

\* the state of the components when they are constructed
Constructed ==
  /\ user = Null
  /\ authLoading = TRUE
  /\ startup = "pending"
  /\ lastNav = "none"
  /\ issues = <<>>
  /\ loading = TRUE
  /\ error = Null
  /\ calls = EmptyBag
  /\ ret = NoReturn
  /\ db = <<>>
  /\ nextId = 1
  /\ isEditing = FALSE
  /\ isModalOpen = FALSE
  /\ submissionError = Null
  /\ formData = Null

\* Session and router: the page loads at any location with anything stored
\* under "token"
InitAuth ==
  /\ Constructed
  /\ token \in StoredTokens
  /\ now \in 1..MaxNow
  /\ route \in Routes

Login(cred) == LoginSubmit(cred)
LoginResponse(c, outcome) == LoginPageResponse(c, outcome)
ListAnswered(c) == ServerList(c)
ListResponse(c, outcome) ==
  /\ fetchIssuesResponse(c, outcome)
  /\ UNCHANGED navVars
  /\ Rerender(outcome = "ok")

NextAuth ==
  \/ Mount
  \/ \E r \in Routes : Navigate(r)
  \/ GuardRedirect
  \/ \E cred \in Accounts \cup {Null} : Login(cred)
  \/ \E c \in BagToSet(calls), o \in {"ok", "rejected"} : LoginResponse(c, o)
  \/ handleLogout
  \/ \E c \in BagToSet(calls) : ListAnswered(c)
  \/ \E c \in BagToSet(calls), o \in {"ok", "network"} : ListResponse(c, o)

SpecAuth == InitAuth /\ [][NextAuth]_vars

\* The pages: a session that has started (any account, or none), any list of
\* issues in the backend and in the cache, any private location
ViewIssues == [id : NumIds, userId : NumIds, status : Statuses, title : {"t1"}]
ViewLists ==
  {<<>>} \cup {<<a>> : a \in ViewIssues}
    \cup {p \in ViewIssues \X ViewIssues : p[1].id # p[2].id}

InitView ==
  /\ user \in Accounts \cup {Null}
  /\ now = 1
  /\ token = IF user = Null THEN NoToken ELSE IssuedToken(user, now)
  /\ authLoading = FALSE
  /\ startup = IF user = Null THEN "no-token" ELSE "set-user"
  /\ route \in PrivateRoutes
  /\ lastNav = "none"
  /\ db \in ViewLists
  /\ nextId = MaxId + 1
  /\ issues = IF user = Null THEN <<>> ELSE Normalize(db)
  /\ loading = FALSE
  /\ error = Null
  /\ calls = EmptyBag
  /\ ret = NoReturn
  /\ isEditing = FALSE
  /\ isModalOpen = FALSE
  /\ submissionError = Null
  /\ formData = IF PageKind(route, user, authLoading) = "new"
                THEN FormInitial(Null, FALSE) ELSE Null

NextView ==
  \/ \E r \in Routes : Navigate(r)
  \/ GuardRedirect
  \/ ClickEdit
  \/ ClickDelete
  \/ ModalCancel
  \/ \E name \in {"title", "status"}, value \in Titles \cup Statuses :
       handleChange(name, value)

SpecView == InitView /\ [][NextView]_vars

\* The issue store, called from any page: the location stays "/".  The
\* session is the one the stored token gives, until logout; a caller passes
\* any status with the title "t1".
StoreAccounts == {a \in Accounts : a.role = "customer" /\ a.id = Num(1)}
StoreDatas == [title : {"t1"}, status : Statuses]

InitStore ==
  /\ Constructed
  /\ now = 1
  /\ token \in {NoToken} \cup {IssuedToken(a, now) : a \in StoreAccounts}
  /\ route = <<"home">>

Provider(A, fresh) == A /\ UNCHANGED navVars /\ Rerender(fresh)

Next ==
  \/ Mount
  \/ Provider(logout, FALSE)
  \/ \E d \in StoreDatas : Provider(addIssue(d), FALSE)
  \/ \E id \in IssueParams, d \in StoreDatas : Provider(updateIssue(id, d), FALSE)
  \/ \E id \in IssueParams : Provider(deleteIssue(id), FALSE)
  \/ Provider(downloadIssuesCsv, FALSE)
  \/ \E c \in BagToSet(calls) : ServerList(c)
  \/ \E c \in BagToSet(calls) : ServerWrite(c)
  \/ \E c \in BagToSet(calls), o \in {"ok", "rejected"} :
       Provider(fetchIssuesResponse(c, o), o = "ok")
  \/ \E c \in BagToSet(calls), o \in {"ok", "rejected", "network"} :
       Provider(mutateResponse(c, o), FALSE)
  \/ \E c \in BagToSet(calls), o \in {"ok", "rejected"} :
       Provider(downloadIssuesCsvResponse(c, o), FALSE)

Spec == InitStore /\ [][Next]_vars

\* The providers against a backend that can fail in every way: every
\* operation of AuthProvider and IssueProvider, with every outcome of every
\* request
FailDatas == [title : {"t1"}, status : {"OPEN"}]
FailIds == {<<"str", "1">>}

\* the page loads with nothing stored, with a token whose payload is not
\* an object, or with the token of a session
InitFail ==
  /\ Constructed
  /\ now = 1
  /\ token \in {NoToken, <<SegOpaque, SegJsonNull, SegOpaque>>}
                \cup {IssuedToken(a, now) : a \in StoreAccounts}
  /\ route = <<"home">>

NextFail ==
  \/ Mount
  \/ Provider(logout, FALSE)
  \/ \E cred \in StoreAccounts \cup {Null} : Provider(loginRequest(cred), FALSE)
  \/ \E c \in BagToSet(calls), o \in LoginOutcomes : Provider(loginResponse(c, o), FALSE)
  \/ Provider(registerRequest, FALSE)
  \/ \E c \in BagToSet(calls), o \in LoginOutcomes :
       Provider(registerResponse(c, o), FALSE)
  \/ \E d \in FailDatas : Provider(addIssue(d), FALSE)
  \/ \E id \in FailIds, d \in FailDatas : Provider(updateIssue(id, d), FALSE)
  \/ \E id \in FailIds : Provider(deleteIssue(id), FALSE)
  \/ Provider(downloadIssuesCsv, FALSE)
  \/ \E c \in BagToSet(calls) : ServerList(c)
  \/ \E c \in BagToSet(calls) : ServerWrite(c)
  \/ \E c \in BagToSet(calls), o \in ListOutcomes :
       Provider(fetchIssuesResponse(c, o), o = "ok")
  \/ \E c \in BagToSet(calls), o \in Failures \cup {"ok"} :
       Provider(mutateResponse(c, o), FALSE)
  \/ \E c \in BagToSet(calls), o \in {"ok", "rejected", "no-message", "network"} :
       Provider(downloadIssuesCsvResponse(c, o), FALSE)

SpecFail == InitFail /\ [][NextFail]_vars

\* The pages on top of the issue store: a session that has started (the
\* reporter of issue 1 or a technician), the list loaded, the user at "/".
\* The user follows a link only when no request is awaiting its answer, so
\* that the page a handler started on is mounted exactly when a page of its
\* kind is.  Other users of the backend change the status of an issue.
PageAccounts == {a \in Accounts : a.id = Num(1) /\ a.role \in {"customer", "technician"}}
PagePlaces == {<<"home">>, <<"new">>, <<"issue", <<"str", "1">>>>}
PageTitles == {"t1"}
PageLists == {<<>>, <<[id |-> Num(1), userId |-> Num(1), status |-> "OPEN", title |-> "t1"]>>}

\* PUT /api/issues/:id of another user accepted: the status of the row is s
OtherUserUpdate(id, s) ==
  /\ Present(db, id)
  /\ \E k \in 1..Len(db) : String(db[k].id) = String(id) /\ db[k].status # s
  /\ db' = [k \in 1..Len(db) |->
              IF String(db[k].id) = String(id)
              THEN [db[k] EXCEPT !.status = s] ELSE db[k]]
  /\ ret' = NoReturn
  /\ UNCHANGED <<authVars, navVars, storeVars, calls, nextId, pageVars>>

InitPage ==
  /\ user \in PageAccounts
  /\ now = 1
  /\ token = IssuedToken(user, now)
  /\ authLoading = FALSE
  /\ startup = "set-user"
  /\ route = <<"home">>
  /\ lastNav = "none"
  /\ db \in PageLists
  /\ nextId = Len(db) + 1
  /\ issues = Normalize(db)
  /\ loading = FALSE
  /\ error = Null
  /\ calls = EmptyBag
  /\ ret = NoReturn
  /\ isEditing = FALSE
  /\ isModalOpen = FALSE
  /\ submissionError = Null
  /\ formData = Null

NextPage ==
  \/ \E r \in PagePlaces : calls = EmptyBag /\ Navigate(r)
  \/ ClickEdit
  \/ ClickDelete
  \/ ModalCancel
  \/ \E name \in {"title", "status"}, value \in PageTitles \cup Statuses :
       handleChange(name, value)
  \/ NewIssuePage_handleSubmit
  \/ handleUpdateIssue
  \/ handleConfirmDelete
  \/ \E c \in BagToSet(calls) : ServerList(c)
  \/ \E c \in BagToSet(calls) : ServerWrite(c)
  \/ \E id \in {Num(1)}, s \in Statuses : OtherUserUpdate(id, s)
  \/ \E c \in BagToSet(calls), o \in {"ok", "rejected"} :
       Page(fetchIssuesResponse(c, o), o = "ok")
  \/ \E c \in BagToSet(calls), o \in {"ok", "rejected"} :
       Page(mutateResponse(c, o), FALSE)

SpecPage == InitPage /\ [][NextPage]_vars

----------------------------------------------------------------------------
(* Properties of the issue details page and the issue form, under SpecView *)

\* the current user is the admin or the reporter of the issue of the route
AdminOrReporter ==
  /\ user # Null
  /\ ShownIssue # Null
  /\ (user.role = "admin" \/ user.id = ShownIssue.userId)

\* the current user is the admin, a technician or the reporter of that issue
AdminTechnicianOrReporter ==
  /\ user # Null
  /\ ShownIssue # Null
  /\ (user.role \in {"admin", "technician"} \/ user.id = ShownIssue.userId)

\* C1: wherever the details page renders its read-only view, a way to delete
\* the issue (the Delete button, or the open confirmation whose Confirm
\* deletes it) is offered if and only if the user is the admin or the
\* reporter of the issue, and it is offered in no other state.
C1_DeleteIffAdminOrReporter ==
  /\ DetailsShown => ((DeleteOffered \/ ConfirmOffered) <=> AdminOrReporter)
  /\ (DeleteOffered \/ ConfirmOffered) => AdminOrReporter

\* C1, the button alone: the Delete button is rendered in the read-only view
\* if and only if the user is the admin or the reporter of the issue.
C1_DeleteButtonIffAdminOrReporter ==
  /\ DetailsShown => (DeleteOffered <=> AdminOrReporter)
  /\ DeleteOffered => AdminOrReporter

\* the confirmation opened on an issue of one's own stays open on the issue
\* of somebody else
C1_StaleConfirm ==
  /\ ConfirmOffered
  /\ ~AdminOrReporter
  /\ user.role = "technician"

\* C2: where the page has found the issue, the Edit button or the form is
\* shown only to the admin, a technician or the reporter; to them the page
\* shows the form when isEditing is set and the Edit button when it is not;
\* with isEditing set and none of the three the read-only view is rendered,
\* without the Edit button and without a form.
C2_EditIffAdminTechnicianOrReporter ==
  LET view == DetailsView(user, issues, loading, error, ParamId(route), isEditing)
  IN  PageKind(route, user, authLoading) = "issue" /\ view \in {"form", "details"} =>
        /\ (EditOffered \/ view = "form") <=> AdminTechnicianOrReporter
        /\ view = "form" <=> isEditing /\ AdminTechnicianOrReporter
        /\ formData # Null <=> view = "form"
        /\ isEditing /\ ~AdminTechnicianOrReporter =>
             view = "details" /\ ~EditOffered /\ formData = Null

\* isEditing was set on an issue of one's own and the route now shows the
\* issue of somebody else: the read-only view
C2_EditingWithoutPermission ==
  /\ DetailsShown
  /\ isEditing
  /\ ~AdminTechnicianOrReporter
  /\ lastNav = "user"

\* a technician who is not the reporter has opened the form
C2_TechnicianEdits ==
  /\ PageKind(route, user, authLoading) = "issue"
  /\ formData # Null
  /\ user.role = "technician"
  /\ user.id # ShownIssue.userId

\* C3: while a form is mounted, its status field can be changed by a form
\* event if and only if the user is a technician or the admin, and a step
\* of handleChange that changes the form's status is a step of such a user.
C3_StatusIffTechnicianOrAdmin ==
  /\ [](formData # Null =>
         ((ENABLED (\E v \in Statuses : handleChange("status", v)))
            <=> user # Null /\ user.role \in {"technician", "admin"}))
  /\ [][(\E n \in {"title", "status"} : \E v \in Titles \cup Statuses :
            handleChange(n, v)) /\ formData'.status # formData.status
           => user # Null /\ user.role \in {"technician", "admin"}]_vars

\* a technician has changed the status in the form of an issue
C3_StatusChanged ==
  /\ PageKind(route, user, authLoading) = "issue"
  /\ formData # Null
  /\ user.role = "technician"
  /\ formData.status # ShownIssue.status

\* a customer has a form, in create or in edit mode, with the title changed
C3_CustomerForm ==
  /\ formData # Null
  /\ user.role = "customer"
  /\ formData.title = "t2"

----------------------------------------------------------------------------
(* Properties of the session and of the route guards, under SpecAuth *)

\* the stored token has a middle segment that decodes to an object with a
\* numeric exp
HasExp(tok) ==
  /\ Len(tok) >= 2
  /\ tok[2].b64
  /\ tok[2].json = "object"
  /\ tok[2].claims.exp # Undefined

ExpOf(tok) == tok[2].claims.exp[2]

\* the stored token cannot be decoded: no middle segment, a middle segment
\* that is not base64, or one that is not JSON
Undecodable(tok) ==
  \/ Len(tok) < 2
  \/ ~tok[2].b64
  \/ tok[2].json = "invalid"

\* C4: the step of startup session restoration, taken with a stored token
\* whose exp is not greater than the current time, leaves no user and no
\* stored token; taken with one whose exp is greater, it leaves the user of
\* the token's claims and the token where it is; and it leaves a user in no
\* other case.
C4_ExpiredTokenRemoved ==
  [][Mount =>
       /\ HasExp(token) /\ ExpOf(token) <= now =>
            user' = Null /\ token' = NoToken
       /\ HasExp(token) /\ ExpOf(token) > now =>
            /\ user' = [id |-> token[2].claims.id, role |-> token[2].claims.role]
            /\ token' = token
       /\ user' # Null => HasExp(token) /\ ExpOf(token) > now /\ token' = token
    ]_vars

\* startup found a decodable token that had expired
C4_ExpiredAtStartup ==
  /\ ~authLoading
  /\ startup = "expired"
  /\ user = Null
  /\ token = NoToken

Protected == PrivateRoutes \cup AdminRoutes

\* C6: while identity resolution is pending every protected route renders
\* the spinner and no guard redirects; once it has ended with no user, a
\* protected route renders the redirect to /login, and the redirect of a
\* guard with no user goes there.
C6_GuardsWaitThenRedirect ==
  /\ [](authLoading =>
         /\ \A r \in Protected : RouteElement(r, user, authLoading) = "spinner"
         /\ ~ENABLED GuardRedirect)
  /\ [](~authLoading /\ user = Null /\ route \in Protected =>
         /\ RouteElement(route, user, authLoading) = "to-login"
         /\ ENABLED GuardRedirect)
  /\ [][GuardRedirect =>
          ~authLoading /\ (user = Null => route' = <<"login">>)]_vars

\* a guard has sent a visitor whose stored token was refused to /login
C6_RedirectedToLogin ==
  /\ ~authLoading
  /\ user = Null
  /\ startup \in {"expired", "catch"}
  /\ lastNav = "guard"
  /\ route = <<"login">>

\* C7: the admin panel is rendered only when identity resolution has ended
\* with a user of role admin; a user of another role on the admin route
\* gets the redirect to the dashboard, and the redirect of a guard with a
\* user is that one; the export control is rendered for no other user than
\* an admin.
C7_AdminRouteOnlyForAdmin ==
  /\ [](PageKind(route, user, authLoading) = "admin" =>
         ~authLoading /\ user # Null /\ user.role = "admin")
  /\ [](~authLoading /\ user # Null /\ user.role # "admin" /\ route \in AdminRoutes =>
         RouteElement(route, user, authLoading) = "to-home")
  /\ [](ExportOffered => user # Null /\ user.role = "admin")
  /\ [][GuardRedirect /\ user # Null =>
          route \in AdminRoutes /\ user.role # "admin" /\ route' = <<"home">>]_vars

\* a guard has sent a technician from the admin route to the dashboard
C7_RedirectedToDashboard ==
  /\ user # Null
  /\ user.role = "technician"
  /\ lastNav = "guard"
  /\ route = <<"home">>

----------------------------------------------------------------------------
(* Properties of the issue store, under Spec *)

MutationOps == {"create", "update", "delete"}

\* a step in which a mutation is invoked
MutationInvoked ==
  \/ \E d \in StoreDatas : addIssue(d)
  \/ \E id \in IssueParams, d \in StoreDatas : updateIssue(id, d)
  \/ \E id \in IssueParams : deleteIssue(id)

\* a step in which a mutation that holds the 2xx answer of call c invokes
\* fetchIssues: the one place a list is invoked with no session
ListInvokedBy(c) == mutateResponse(c, "ok")

\* the step sent no request
NothingSent == calls' \sqsubseteq calls

\* the step returned a not-authenticated failure
NotAuthenticatedReturned ==
  ret'.val \in {Failure("User not authenticated."),
                Failure("No authentication token found.")}

\* C8 as stated: every operation of the store, the list too, invoked with
\* no session returns a not-authenticated failure and sends no request.
C8_EveryOperationRefusedWithoutSession ==
  [][/\ MutationInvoked /\ user = Null => NotAuthenticatedReturned /\ NothingSent
     /\ downloadIssuesCsv /\ token = NoToken => NotAuthenticatedReturned /\ NothingSent
     /\ \A c \in BagToSet(calls) :
          ListInvokedBy(c) /\ token = NoToken => NotAuthenticatedReturned /\ NothingSent
    ]_vars

\* C8: create, update and delete invoked with no user, and the export
\* invoked with no stored token, return their not-authenticated failure,
\* send no request and leave the cache alone; the list invoked with no
\* stored token sends no request either, but it returns no failure: it
\* empties the cache, clears loading and lets the mutation that awaited it
\* return success.
C8_OperationsWithoutSession ==
  [][/\ MutationInvoked /\ user = Null =>
          /\ ret'.val = Failure("User not authenticated.")
          /\ calls' = calls
          /\ UNCHANGED storeVars
     /\ downloadIssuesCsv /\ token = NoToken =>
          /\ ret' = [op |-> "export", val |-> Failure("No authentication token found.")]
          /\ calls' = calls
          /\ UNCHANGED storeVars
     /\ \A c \in BagToSet(calls) :
          ListInvokedBy(c) /\ token = NoToken =>
            /\ ret' = [op |-> c.op, val |-> Success]
            /\ calls' = Remove(calls, c)
            /\ issues' = <<>>
            /\ loading' = FALSE
            /\ error' = error
    ]_vars

\* a mutation invoked after logout has returned its failure
C8_RefusedWithoutSession ==
  /\ ~authLoading
  /\ user = Null
  /\ ret.op \in MutationOps
  /\ ret.val = Failure("User not authenticated.")

\* a list invoked after logout has emptied the cache and let its mutation
\* return success
C8_ListWithoutSession ==
  /\ token = NoToken
  /\ ret.op \in MutationOps
  /\ ret.val = Success
  /\ issues = <<>>
  /\ db # <<>>

\* C9: the cache starts empty, and a step that changes it either empties it
\* or stores, with the ids made strings, the list of a response the backend
\* gave to a list request of this client; and every such response carries
\* the rows the backend held when it answered.
C9_CacheIsBackendList ==
  /\ issues = <<>>
  /\ [][issues' # issues =>
          \/ issues' = <<>>
          \/ \E c \in BagToSet(calls) :
               /\ c.phase = "list"
               /\ c.resp # Pending
               /\ issues' = Normalize(c.resp.body)]_vars
  /\ [][\A c \in BagToSet(calls') :
          c.phase = "list" /\ c.resp # Pending /\ ~BagIn(c, calls) =>
            c.resp.body = db]_vars

\* the cache holds a list the backend returned and has since written over:
\* the answer to an accepted update was lost
C9_CacheOfEarlierList ==
  /\ issues # <<>>
  /\ db # <<>>
  /\ issues # Normalize(db)
  /\ calls = EmptyBag

\* the step sends the list request awaited by mutation op, and that is all
\* it does to the store
RefreshStarted(c) ==
  /\ calls' = Add(Remove(calls, c), Call(c.op, "list", Null))
  /\ ret' = NoReturn
  /\ issues' = issues

\* a step in which the list request awaited by a mutation ends
RefreshEnded ==
  \E c \in BagToSet(calls), o \in ListOutcomes :
    /\ c.op = ret'.op
    /\ fetchIssuesResponse(c, o)
    /\ \/ issues' = issues
       \/ c.resp # Pending /\ issues' = Normalize(c.resp.body)

\* no mutation writes to the cache itself: not when it is invoked, and not
\* when its request fails
NoLocalWrite ==
  /\ MutationInvoked => issues' = issues
  /\ \A c \in BagToSet(calls), o \in Failures :
       mutateResponse(c, o) => issues' = issues

\* C10 as stated: a mutation that holds the 2xx answer to its write always
\* sends the list request, returns success only when that request has
\* ended, and never writes to the cache itself.
C10_AcceptedWriteAlwaysRefreshes ==
  [][/\ \A c \in BagToSet(calls) : mutateResponse(c, "ok") => RefreshStarted(c)
     /\ ret'.op \in MutationOps /\ ret'.val = Success => RefreshEnded
     /\ NoLocalWrite
    ]_vars

\* C10: a mutation that holds the 2xx answer to its write sends the list
\* request while a token is stored, returns success only when that request
\* has ended, and never writes to the cache itself; when the token has been
\* removed meanwhile it sends no list request, empties the cache and returns
\* success at once; and when the answer to an accepted write is lost it
\* sends no list request and returns the failure of the transport.
C10_AcceptedWriteRefreshes ==
  [][/\ \A c \in BagToSet(calls) :
          mutateResponse(c, "ok") =>
            IF token # NoToken
            THEN RefreshStarted(c)
            ELSE /\ calls' = Remove(calls, c)
                 /\ issues' = <<>>
                 /\ ret' = [op |-> c.op, val |-> Success]
     /\ \A c \in BagToSet(calls) :
          c.resp # Pending /\ mutateResponse(c, "network") =>
            /\ calls' = Remove(calls, c)
            /\ ret' = [op |-> c.op, val |-> Failure(NetworkMessage)]
     /\ ret'.op \in MutationOps /\ ret'.val = Success =>
          \/ RefreshEnded
          \/ /\ token = NoToken
             /\ \E c \in BagToSet(calls) : c.op = ret'.op /\ mutateResponse(c, "ok")
     /\ NoLocalWrite
    ]_vars

\* the answer to an accepted write was lost: the mutation returned a failure
C10_AcceptedAnswerLost ==
  /\ ret.op \in MutationOps
  /\ ret.val = Failure(NetworkMessage)
  /\ issues # Normalize(db)

\* a create has returned success with the cache holding the refreshed list
C10_SuccessAfterRefresh ==
  /\ token # NoToken
  /\ ret = [op |-> "create", val |-> Success]
  /\ issues # <<>>
  /\ issues = Normalize(db)

\* how many records of list have the id that reads as text t
Copies(list, t) == Cardinality({k \in 1..Len(list) : String(list[k].id) = t})

\* the ids, as text, of the records of list
IdTexts(list) == {String(list[k].id) : k \in 1..Len(list)}

\* C11: the cache never holds two records with one id; and when the list
\* refresh that a create awaited ends with the backend's list, every issue
\* of that list, the ones the cache did not hold before among them, is in
\* the cache exactly once and the create returns success.
C11_CreatedIssueOnce ==
  /\ [](\A t \in IdTexts(issues) : Copies(issues, t) = 1)
  /\ [][\A c \in BagToSet(calls) :
          c.op = "create" /\ fetchIssuesResponse(c, "ok") =>
            /\ \A t \in IdTexts(c.resp.body) : Copies(issues', t) = 1
            /\ Len(issues') = Len(c.resp.body)
            /\ ret' = [op |-> "create", val |-> Success]]_vars

\* a create has returned success after its refresh and the cache, empty at
\* the list before it, holds the created issue once
C11_CreatedIssueCached ==
  /\ ret = [op |-> "create", val |-> Success]
  /\ Len(issues) = 1
  /\ Copies(issues, <<"str", "1">>) = 1
  /\ user # Null
  /\ issues[1].userId = user.id

\* C16: every id in the cache is a string at every state; the details page
\* finds an issue for a route id exactly when a cached id equals it, and
\* then finds a record with that id; and a list that ends with the
\* backend's list leaves in the cache the records of the response, in its
\* order, with their ids made strings, and nothing else.
C16_CacheIdsAreStrings ==
  /\ [](\A k \in 1..Len(issues) : issues[k].id[1] = "str")
  /\ [](\A id \in IssueParams :
         /\ FindIssue(issues, id) # Null <=> \E k \in 1..Len(issues) : issues[k].id = id
         /\ FindIssue(issues, id) # Null => FindIssue(issues, id).id = id)
  /\ [][\A c \in BagToSet(calls) :
          fetchIssuesResponse(c, "ok") =>
            /\ Len(issues') = Len(c.resp.body)
            /\ \A k \in 1..Len(issues') :
                 issues'[k] = [c.resp.body[k] EXCEPT
                                 !.id = <<"str", DecimalString(c.resp.body[k].id[2])>>]
       ]_vars

\* the refresh after an update has replaced the cached record: the cache
\* holds the issue under its string id with the status the update wrote
C16_RecordReplaced ==
  /\ ret = [op |-> "update", val |-> Success]
  /\ Len(issues) = 1
  /\ issues[1].id = <<"str", "1">>
  /\ issues[1].status = "CLOSED"
  /\ FindIssue(issues, <<"str", "1">>) = issues[1]

----------------------------------------------------------------------------
(* Properties of the operations when requests fail, under SpecFail *)

\* the fixed fallback message of a mutation
FixedFallback(op) ==
  CASE op = "create" -> "Failed to add issue."
    [] op = "update" -> "Failed to update issue."
    [] op = "delete" -> "Failed to delete issue."

\* the step of a failed mutation sends no list request and leaves the
\* cache, the loading flag and the error of the store as they are
FailureFrame(c) ==
  /\ calls' = Remove(calls, c)
  /\ issues' = issues
  /\ loading' = loading
  /\ error' = error

\* C13 as stated: a mutation whose request fails returns a failure with the
\* server's message when there is one and with its fixed fallback message
\* in every other case, and keeps the frame.
C13_FailureCarriesServerMessageOrFallback ==
  [][\A c \in BagToSet(calls), o \in Failures :
       mutateResponse(c, o) =>
         /\ ret' = [op |-> c.op,
                    val |-> [success |-> FALSE,
                             error |-> IF o = "rejected" THEN "server message"
                                       ELSE FixedFallback(c.op)]]
         /\ FailureFrame(c)]_vars

\* C13: a mutation whose request fails returns a failure and keeps the
\* frame (no list request, cache, loading flag and error unchanged).  The
\* failure carries the message of a non-2xx JSON body when it has one and
\* the fixed fallback when it has none; a non-2xx body that is not JSON
\* gives the message of the parse error, and a failure of the transport
\* gives the message of the error fetch rejected with.
C13_FailureKeepsFrame ==
  [][\A c \in BagToSet(calls), o \in Failures :
       mutateResponse(c, o) =>
         /\ ret' = [op |-> c.op,
                    val |-> [success |-> FALSE,
                             error |-> CASE o = "rejected" -> "server message"
                                         [] o = "no-message" -> FixedFallback(c.op)
                                         [] o = "unparsable" -> "Unexpected token"
                                         [] o = "network" -> "Failed to fetch"]]
         /\ FailureFrame(c)]_vars

\* a delete was answered non-2xx with a body without a message: the
\* fallback was returned and the cache still holds the issue
C13_FallbackReturned ==
  /\ ret = [op |-> "delete", val |-> Failure("Failed to delete issue.")]
  /\ issues # <<>>
  /\ error = Null

\* a create failed in transport: the error's own message was returned
C13_TransportMessageReturned ==
  /\ ret = [op |-> "create", val |-> Failure("Failed to fetch")]
  /\ error = Null

\* C14: neither step of the export changes the cached issues, whatever the
\* outcome of its request; a failed export returns a failure with a
\* message, a successful one returns success.
C14_ExportKeepsCache ==
  [][/\ downloadIssuesCsv => issues' = issues
     /\ \A c \in BagToSet(calls), o \in {"ok", "rejected", "no-message", "network"} :
          downloadIssuesCsvResponse(c, o) =>
            /\ issues' = issues
            /\ ret'.op = "export"
            /\ IF o = "ok" THEN ret'.val = [success |-> TRUE]
               ELSE /\ ret'.val.success = FALSE
                    /\ ret'.val.error \in STRING
                    /\ ret'.val.error # ""
    ]_vars

\* an export failed in transport while the cache held an issue
C14_ExportFailedCacheKept ==
  /\ ret = [op |-> "export", val |-> Failure("Failed to fetch")]
  /\ issues # <<>>

\* the text the store shows for a list that failed with message m
LoadErrorText(m) ==
  "Failed to load issues: " \o m
    \o ". Please ensure your backend is running and accessible at "
    \o "https://server-9cdv.onrender.com/."

\* the step starts a list request
ListRequestStarted ==
  \E op \in MutationOps \cup {"list"} :
    CopiesIn(Call(op, "list", Null), calls') > CopiesIn(Call(op, "list", Null), calls)

\* C17: a list request that is answered non-2xx, or with a body that cannot
\* be parsed, or that fails in transport, sets the error of the store to the
\* load-error text, which carries the server's raw text when there is one,
\* clears loading and leaves the cached issues as they are; and every step
\* that starts a list request clears the error and sets loading.
C17_ListFailureSetsError ==
  /\ [][\A c \in BagToSet(calls), o \in Failures :
          fetchIssuesResponse(c, o) =>
            /\ error' = [msg |-> LoadErrorText(
                 CASE o = "rejected" -> "Failed to fetch issues: server message"
                   [] o = "no-message" -> "Failed to fetch issues: Internal Server Error"
                   [] o = "unparsable" -> "Unexpected token"
                   [] o = "network" -> "Failed to fetch")]
            /\ loading' = FALSE
            /\ issues' = issues]_vars
  /\ [][ListRequestStarted => error' = Null /\ loading']_vars

\* a list was answered non-2xx with text while the cache held an issue:
\* the error carries the text and the issue is still cached
C17_LoadErrorShown ==
  /\ error = [msg |-> LoadErrorText("Failed to fetch issues: server message")]
  /\ ~loading
  /\ issues # <<>>

\* the next list request has started and the error is gone
C17_ErrorCleared ==
  /\ error = Null
  /\ loading
  /\ \E c \in BagToSet(calls) : c.phase = "list"
  /\ ret = NoReturn
  /\ nextId > 1

\* the values an operation can return: a success, or a failure with a text
Structured(v) ==
  \/ v = [success |-> TRUE]
  \/ /\ DOMAIN v = {"success", "error"}
     /\ v.success = FALSE
     /\ v.error \in STRING

\* C15 as stated: every operation that returns, the list too, returns a
\* success or a failure with a message that is not empty.
C15_EveryOperationReturnsResult ==
  ret.op # "none" => Structured(ret.val) /\ (~ret.val.success => ret.val.error # "")

\* C15: no operation ends with an Error instead of a return.  login,
\* register, create, update, delete and the export return a success or a
\* failure with a message, which is empty only when login or register is
\* answered non-2xx by a body without a message; the list returns nothing,
\* and reports a failed request in the error of the store; startup token
\* decoding returns nothing and can always complete.
C15_NoExceptionEscapes ==
  /\ [](authLoading => ENABLED Mount)
  /\ [](/\ "thrown" \notin DOMAIN ret.val
        /\ ret.op \in {"login", "register", "create", "update", "delete", "export"} =>
             /\ Structured(ret.val)
             /\ ~ret.val.success /\ ret.val.error = "" =>
                  ret.op \in {"login", "register"}
        /\ ret.op \in {"list", "none"} => ret.val = [kind |-> "void"])
  /\ [][\A c \in BagToSet(calls), o \in Failures :
          c.op = "list" /\ fetchIssuesResponse(c, o) =>
            ret' = [op |-> "list", val |-> [kind |-> "void"]] /\ error' # Null]_vars

\* a login was answered with a body that is not JSON: a failure returned
C15_LoginParseFailure ==
  /\ ret = [op |-> "login", val |-> Failure("Unexpected token")]
  /\ user = Null

\* a list of the effect failed: it returned nothing and set the error
C15_ListReturnedNothing ==
  /\ ret = [op |-> "list", val |-> Void]
  /\ error # Null

\* a register was answered non-2xx without a message: the empty message
C15_EmptyMessage ==
  ret = [op |-> "register", val |-> Failure("")]


----------------------------------------------------------------------------
(* Properties of the pages on top of the issue store, under SpecPage *)

\* the status of the row with this id
StatusOf(list, id) == FindIssue(list, id).status

\* the request the step has sent
Sent(c) == CopiesIn(c, calls') > CopiesIn(c, calls)

\* the update a customer submits carries the status the cached issue has
CustomerPayloadKeepsStatus ==
  handleUpdateIssue /\ user.role = "customer"
    => \E c \in BagToSet(calls') :
         /\ Sent(c)
         /\ c.op = "update"
         /\ c.req.data.status = StatusOf(issues, ParamId(route))

\* the backend accepting the update of a customer leaves the status of the
\* issue as it was immediately before
CustomerWriteKeepsStatus ==
  \A c \in BagToSet(calls) :
    ServerWrite(c) /\ c.op = "update" /\ user.role = "customer"
      => StatusOf(db', c.req.id) = StatusOf(db, c.req.id)

\* C12: an update a customer submits on the customer's own issue carries the
\* status the issue had before the edit, and the status the backend holds
\* after accepting the update is the status it held immediately before,
\* whatever other users' updates are interleaved
C12_CustomerUpdateNeverChangesStatus ==
  [][CustomerPayloadKeepsStatus /\ CustomerWriteKeepsStatus]_vars

\* C12, its first half alone
C12_PayloadCarriesCachedStatus == [][CustomerPayloadKeepsStatus]_vars


\* a create request awaiting the backend or its answer
CreateRequests == {c \in BagToSet(calls) : c.op = "create" /\ c.phase = "write"}

\* C18: only a customer has the create capability: a technician or an admin
\* neither reaches the create-issue form nor submits a create request
C18_CreateOnlyForCustomers ==
  user # Null /\ user.role # "customer"
    => /\ PageKind(route, user, authLoading) # "new"
       /\ CreateRequests = {}

\* the state C18 excludes: a technician has the create-issue form, entered
\* by the location "#/issues/new" (Navbar and DashboardPage render no link)
C18_TechnicianOnCreateForm ==
  /\ user # Null /\ user.role = "technician"
  /\ PageKind(route, user, authLoading) = "new"
  /\ formData # Null

\* C19: every create request carries the status OPEN, whichever user
\* submits it
C19_CreateCarriesOpen ==
  \A c \in CreateRequests : c.req.data.status = "OPEN"

\* C19, for customers alone: the create request of a customer carries OPEN
C19_CustomerCreateCarriesOpen ==
  user # Null /\ user.role = "customer" => C19_CreateCarriesOpen

\* the mutations the client has sent and not finished: the write awaits its
\* answer, or the refresh that follows it does
MutationCycles ==
  {c \in BagToSet(calls) : c.op \in {"create", "update", "delete"}}

\* C20: no two mutation cycles run in parallel: while one mutation awaits
\* its response, a second one is not submitted
C20_OneMutationCycle ==
  \A c \in MutationCycles :
    /\ CopiesIn(c, calls) = 1
    /\ \A d \in MutationCycles : d = c


----------------------------------------------------------------------------
(* Properties of overlapping requests, under Spec *)

\* the list requests in flight that the backend has answered
AnsweredLists == {c \in BagToSet(calls) : c.phase = "list" /\ c.resp # Pending}

\* C21: list refreshes that overlap are not coordinated: the list response
\* that arrives stores its body in the cache whatever other list requests
\* are in flight and whatever the cache holds, so that after both have
\* completed the cache is the body of the response that arrived last, be it
\* the older snapshot of the backend
C21_LastResponseWins ==
  [][\A c \in BagToSet(calls) :
       Provider(fetchIssuesResponse(c, "ok"), TRUE)
         => issues' = Normalize(c.resp.body)]_vars

\* two refreshes have overlapped: the refresh of a create has just stored
\* the backend's list of now, and a list answered before with another
\* snapshot is still on its way to the client
C21_OlderResponsePending ==
  /\ ret = [op |-> "create", val |-> Success]
  /\ issues = Normalize(db)
  /\ \E c \in AnsweredLists : Normalize(c.resp.body) # issues


\* C22: whenever no user is held (startup resolved to none, or a logout),
\* the cache is empty, also when a list response requested before the
\* logout arrives after it
C22_NoSessionEmptyCache ==
  ~authLoading /\ user = Null => issues = <<>>

\* the logout of a user itself empties the cache
C22_LogoutEmptiesCache ==
  [][user # Null /\ Provider(logout, FALSE) => issues' = <<>>]_vars


----------------------------------------------------------------------------
(* Properties of the session and of the store's flags, under SpecFail *)

\* a step of login that does not end with a session, or any step of register
FailedLoginOrRegister ==
  \/ \E cred \in StoreAccounts \cup {Null} : loginRequest(cred)
  \/ \E c \in BagToSet(calls), o \in LoginOutcomes :
       loginResponse(c, o) /\ ~(o = "ok" /\ c.req # Null)
  \/ registerRequest
  \/ \E c \in BagToSet(calls), o \in LoginOutcomes : registerResponse(c, o)

\* C23: once the mount effect has resolved the identity, a user is held
\* exactly when a token is in localStorage, whatever logins, registers and
\* logouts follow; a login that fails and every step of register leave the
\* user and the stored token as they are (the token is the one durable
\* value of the model)
C23_UserIffToken ==
  /\ [](~authLoading => (user # Null <=> token # NoToken))
  /\ [][FailedLoginOrRegister => UNCHANGED <<user, token>>]_vars

\* a login has failed while a user is signed in: the session is still there
C23_FailedLoginKeepsSession ==
  /\ ret.op = "login"
  /\ ret.val # Success
  /\ user # Null
  /\ token # NoToken

\* a login has succeeded after the startup had found no usable token
C23_LoggedInAfterNoToken ==
  /\ startup # "set-user"
  /\ ret = [op |-> "login", val |-> Success]
  /\ user # Null
  /\ token # NoToken


\* the list and export requests in flight
LoadingRequests == {c \in BagToSet(calls) : c.phase \in {"list", "export"}}

\* C24: the loading flag of the issue store is true at every state in which
\* a list refresh or a CSV export is in flight (so that it is false only
\* once every such request has had its response, and stays true while one
\* has none)
C24_LoadingWhileInFlight == LoadingRequests # {} => loading

\* C24, its second half: the step that leaves no list or export request in
\* flight leaves the flag false
C24_AllAnsweredClearsLoading ==
  [][LoadingRequests # {} /\ LoadingRequests' = {} => ~loading']_vars

\* C24, for the responses alone: every list or export response that arrives
\* clears the flag, be other requests in flight or not
C24_ResponseClearsLoading ==
  [][\A c \in BagToSet(calls) :
       \/ \E o \in ListOutcomes : fetchIssuesResponse(c, o)
       \/ \E o \in {"ok", "rejected", "no-message", "network"} :
            downloadIssuesCsvResponse(c, o)
       => ~loading']_vars

\* the state C24 excludes: a list request is awaiting its response and the
\* flag is false
C24_NotLoadingWhileInFlight ==
  /\ user # Null
  /\ LoadingRequests # {}
  /\ ~loading


\* the step starts the refresh of a mutation: the list request d replaces a
\* write request of the same operation that the backend has accepted
RefreshOfAccepted(d) ==
  \E c \in BagToSet(calls) :
    /\ c.phase = "write"
    /\ c.op = d.op
    /\ c.resp # Pending
    /\ calls' = Add(Remove(calls, c), d)

\* C25 as stated: a create, update or delete returns success exactly when
\* the backend accepted the write: a failure is returned only for a write
\* the backend has not accepted, and the refresh of an accepted write ends
\* with success whatever its outcome
C25_SuccessIffAccepted ==
  [][\A c \in BagToSet(calls) :
       /\ \A o \in Failures : mutateResponse(c, o) => c.resp = Pending
       /\ \A o \in ListOutcomes :
            fetchIssuesResponse(c, o) /\ c.op \in MutationOps
              => ret' = [op |-> c.op, val |-> Success]]_vars

\* C25: a create, update or delete returns success exactly when the client
\* has received the backend's 2xx answer to the write.  Without that answer
\* it returns a failure, also when the backend accepted the write and the
\* answer was lost; a refresh is started only for an accepted write whose
\* answer arrived, and it ends with success whatever its outcome: when it
\* fails, the store's error is set and the cache is left as it is
C25_SuccessIffAnswered ==
  [][/\ \A c \in BagToSet(calls) :
          /\ \A o \in Failures :
               mutateResponse(c, o)
                 => ret' = [op |-> c.op,
                            val |-> Failure(WriteErrorMessage(c.op, o))]
          /\ mutateResponse(c, "ok")
               => /\ c.resp # Pending
                  /\ ret' \in {NoReturn, [op |-> c.op, val |-> Success]}
          /\ \A o \in ListOutcomes :
               fetchIssuesResponse(c, o) /\ c.op \in MutationOps
                 => /\ ret' = [op |-> c.op, val |-> Success]
                    /\ o # "ok" => error' = LoadError(o) /\ issues' = issues
     /\ \A d \in BagToSet(calls') :
          Sent(d) /\ d.phase = "list" /\ d.op \in MutationOps /\ d.resp = Pending
            => RefreshOfAccepted(d)
    ]_vars

\* a delete the backend accepted has returned success after a refresh that
\* failed: the error is set and the cache still holds the deleted issue
C25_DeletedIssueStillCached ==
  /\ ret = [op |-> "delete", val |-> Success]
  /\ error \in {LoadError(o) : o \in Failures}
  /\ FindIssue(issues, <<"str", "1">>) # Null
  /\ FindIssue(db, <<"str", "1">>) = Null

\* the backend has accepted a write and the operation has returned a failure
C25_AcceptedWriteFailed ==
  /\ ret.op = "create"
  /\ ret.val = Failure(NetworkMessage)
  /\ db # <<>>
  /\ issues = <<>>

====
